---- MODULE Spec2Model ----
(***************************************************************************)
(* Model of run/dag/dag.go: a directed graph stored as adjacency lists,   *)
(* with cycle detection (Validate, HasCycle) and a deterministic          *)
(* depth-first ordering (Order).                                           *)
(*                                                                         *)
(* Identifiers (type ID, a Go string) are the strings of Alphabet, whose  *)
(* positions give the string order used by idList.Less.  A Go string      *)
(* built by fmt.Sprintf from identifiers and "->" is modelled by the      *)
(* sequence of its space-separated words.                                 *)
(***************************************************************************)
EXTENDS Integers, Sequences, FiniteSets, TLC

\* ------------------------------------------------------------------ bounds
\* most entries the before and after lists of one AddNode call hold together
MaxHints == 2
\* most edges the adjacency map holds
MaxEdges == 3

\* ------------------------------------------------------------------ data
\* The identifiers of the model, listed in ascending (string) order.
Alphabet == <<"A", "B", "C">>
IDSet == {Alphabet[i] : i \in 1..Len(Alphabet)}

\* before/after lists of one AddNode call: any sequences of identifiers,
\* repetitions included
HintLists == UNION {[1..n -> IDSet] : n \in 0..MaxHints}
HintPairs == {p \in HintLists \X HintLists : Len(p[1]) + Len(p[2]) <= MaxHints}

Arrow == "->"
NoID == ""
NoErr == "nil"
ErrDuplicateNode == "duplicate node"
ErrNodeNotFound == "node not found"
ErrCycleDetected == "cycle detected"
StackOverflow == "stack overflow"
NoValue == "none"

\* The fields of the DAG struct and the result of the last call; pc, frames
\* and todo are the position of a Validate call that runs step by step, and
\* plan is the set of insertions a build is to make.
VARIABLES dag, values, cycles, validated, ret, pc, frames, todo, plan

vars == <<dag, values, cycles, validated, ret, pc, frames, todo, plan>>

aux == <<pc, frames, todo, plan>>

\* ------------------------------------------------------------------ helpers
Range(s) == {s[i] : i \in 1..Len(s)}

Min(S) == CHOOSE x \in S : \A y \in S : x <= y

\* the position of an identifier in the ascending order
Rank(id) == CHOOSE i \in 1..Len(Alphabet) : Alphabet[i] = id

\* idList.Less: the order < of Go strings
Less(a, b) == Rank(a) < Rank(b)

\* idList.contains
contains(ids, other) == \E i \in 1..Len(ids) : ids[i] = other

RECURSIVE insertSorted(_, _)
insertSorted(x, s) ==
    IF s = <<>> THEN <<x>>
    ELSE IF Less(x, Head(s)) THEN <<x>> \o s
    ELSE <<Head(s)>> \o insertSorted(x, Tail(s))

\* sort.Sort on an idList: ascending by idList.Less
RECURSIVE sortSort(_)
sortSort(ids) ==
    IF ids = <<>> THEN <<>> ELSE insertSorted(Head(ids), sortSort(Tail(ids)))

\* sortedIds returning the copy unsorted
sortedIdsUnsorted(ids) == [i \in 1..Len(ids) |-> ids[i]]

\* sortedIds: copies the list and sorts the copy
sortedIds(ids) == sortSort([i \in 1..Len(ids) |-> ids[i]])

\* d.dag[id] of a Go map: the nil (empty) list for a missing key
Children(d, id) == IF id \in DOMAIN d THEN d[id] ELSE <<>>

\* "for id := range d.dag": the keys of the map in some order
RECURSIVE mapKeys(_)
mapKeys(K) ==
    IF K = {} THEN <<>>
    ELSE LET k == CHOOSE x \in K : TRUE IN <<k>> \o mapKeys(K \ {k})

\* DAG.IDs: the keys of d.dag, collected in map order and then sorted
IDs(d) == sortSort(mapKeys(DOMAIN d))

\* ------------------------------------------------------------------ Store
\* The DAG struct as a record; New() is the empty structure (cycles is the
\* nil map, read as "no identifier marked").
New == [dag |-> <<>>, values |-> <<>>, cycles |-> {}, validated |-> FALSE]

\* addEdge: append `to` to the list of `from` unless it is already there.
\* The list of `from` exists at every call site (AddNode creates it first).
addEdge(d, from, to) ==
    IF ~contains(d[from], to) THEN [d EXCEPT ![from] = Append(@, to)] ELSE d

\* addEdges: addEdge(from, to) for each `to` of the list, in order
RECURSIVE addEdges(_, _, _)
addEdges(d, from, toids) ==
    IF toids = <<>> THEN d
    ELSE addEdges(addEdge(d, from, Head(toids)), from, Tail(toids))

\* map write d.dag[k] = []ID{} when k has no entry
ensureEntry(d, k) == IF k \in DOMAIN d THEN d ELSE d @@ (k :> <<>>)

\* the loop of AddNode over `before`: ensure an entry for bid, add bid -> id
RECURSIVE addBefore(_, _, _)
addBefore(d, id, before) ==
    IF before = <<>> THEN d
    ELSE addBefore(addEdge(ensureEntry(d, Head(before)), Head(before), id),
                   id, Tail(before))

\* AddNode writing the edges of `before` ahead of its duplicate check
AddNodeLateCheck(s, id, value, before, after) ==
    LET d1 == addBefore(s.dag, id, before)
    IN IF id \in DOMAIN s.values
       THEN [s |-> [s EXCEPT !.dag = d1], err |-> ErrDuplicateNode]
       ELSE [s |-> [dag |-> addEdges(ensureEntry(d1, id), id, after),
                    values |-> s.values @@ (id :> value),
                    cycles |-> s.cycles,
                    validated |-> FALSE],
             err |-> NoErr]

\* AddNode leaving the validated flag as it is
AddNodeKeepsValidated(s, id, value, before, after) ==
    IF id \in DOMAIN s.values
    THEN [s |-> s, err |-> ErrDuplicateNode]
    ELSE [s |-> [dag |-> addEdges(ensureEntry(addBefore(s.dag, id, before), id),
                                  id, after),
                 values |-> s.values @@ (id :> value),
                 cycles |-> s.cycles,
                 validated |-> s.validated],
          err |-> NoErr]

\* DAG.AddNode: the structure after the call and the error returned
AddNode(s, id, value, before, after) ==
    IF id \in DOMAIN s.values
    THEN [s |-> s, err |-> ErrDuplicateNode]
    ELSE LET d1 == addBefore(s.dag, id, before)
             d2 == ensureEntry(d1, id)
             d3 == addEdges(d2, id, after)
         IN [s |-> [dag |-> d3,
                    values |-> s.values @@ (id :> value),
                    cycles |-> s.cycles,
                    validated |-> FALSE],
             err |-> NoErr]

\* DAG.Node
Node(s, id) ==
    IF id \in DOMAIN s.values
    THEN [value |-> s.values[id], err |-> NoErr]
    ELSE [value |-> NoValue, err |-> ErrNodeNotFound]

\* DAG.ChildrenOf
ChildrenOf(s, id) == Children(s.dag, id)

\* ------------------------------------------------------------------ Validator
\* the first loop of hasCycle looking only for the identifier the branch
\* starts with
branchHitFirstOnly(branch, children) ==
    IF contains(children, branch[1]) THEN 1 ELSE 0

\* the first loop of hasCycle: the position of the first identifier of the
\* branch that occurs among the children, 0 when there is none
branchHit(branch, children) ==
    LET hits == {i \in 1..Len(branch) : contains(children, branch[i])}
    IN IF hits = {} THEN 0 ELSE Min(hits)

RECURSIVE hasCycle(_, _, _, _)
RECURSIVE hasCycleLoop(_, _, _, _)
RECURSIVE hasCycleLoopSameReason(_, _, _, _)

\* DAG.hasCycle: found, the path description, and the identifiers it marks
\* in d.cycles.  The first loop returns at the first identifier of the
\* branch that occurs among the children.
hasCycle(d, branch, children, reason) ==
    LET hit == branchHit(branch, children)
    IN IF hit # 0
       THEN [found |-> TRUE,
             reason |-> reason \o <<branch[hit]>>,
             marked |-> {branch[hit]}]
       ELSE hasCycleLoop(d, branch, sortedIds(children), reason)

\* the second loop of hasCycle passing its own description on unextended
hasCycleLoopSameReason(d, branch, kids, reason) ==
    IF kids = <<>> THEN [found |-> FALSE, reason |-> <<>>, marked |-> {}]
    ELSE LET r == hasCycle(d, Append(branch, Head(kids)),
                           Children(d, Head(kids)), reason)
         IN IF r.found THEN r
            ELSE hasCycleLoopSameReason(d, branch, Tail(kids), reason)

\* the second loop of hasCycle, over the sorted children still to visit
hasCycleLoop(d, branch, kids, reason) ==
    IF kids = <<>> THEN [found |-> FALSE, reason |-> <<>>, marked |-> {}]
    ELSE LET tid == Head(kids)
             r == hasCycle(d, Append(branch, tid), Children(d, tid),
                           reason \o <<tid, Arrow>>)
         IN IF r.found THEN r ELSE hasCycleLoop(d, branch, Tail(kids), reason)

\* DAG.validateNode
validateNode(d, id) ==
    LET r == hasCycle(d, <<id>>, Children(d, id), <<id, Arrow>>)
    IN IF r.found
       THEN [err |-> ErrCycleDetected, reason |-> r.reason,
             marked |-> r.marked \cup {id}]
       ELSE [err |-> NoErr, reason |-> <<>>, marked |-> {}]

\* the loop of Validate returning after its first identifier
validateLoopFirstOnly(d, ids) ==
    IF ids = <<>> THEN [err |-> NoErr, reason |-> <<>>, marked |-> {}]
    ELSE validateNode(d, Head(ids))

\* the loop of Validate over d.IDs(): stops at the first failing identifier
RECURSIVE validateLoop(_, _)
validateLoop(d, ids) ==
    IF ids = <<>> THEN [err |-> NoErr, reason |-> <<>>, marked |-> {}]
    ELSE LET r == validateNode(d, Head(ids))
         IN IF r.err # NoErr THEN r ELSE validateLoop(d, Tail(ids))

\* DAG.Validate: a fresh cycle set, validated = true, then the loop
Validate(s) ==
    LET r == validateLoop(s.dag, IDs(s.dag))
    IN [s |-> [s EXCEPT !.cycles = r.marked, !.validated = TRUE],
        reason |-> r.reason, err |-> r.err]

\* DAG.HasCycle
HasCycle(s, id) ==
    IF ~s.validated
    THEN LET v == Validate(s)
         IN IF v.err = NoErr
            THEN [s |-> v.s, flag |-> FALSE]
            ELSE [s |-> v.s, flag |-> id \in v.s.cycles]
    ELSE [s |-> s, flag |-> id \in s.cycles]

\* ------------------------------------------------------------------ Orderer
\* every identifier the adjacency map names, as a key or as an edge target
KnownIDs(d) == (DOMAIN d) \cup UNION {Range(d[k]) : k \in DOMAIN d}

\* the callback Order passes to walkFrom: append when not visited, then mark
do(id, acc) ==
    [acc EXCEPT !.order = IF id \in acc.visited THEN @ ELSE Append(@, id),
                !.visited = @ \cup {id}]

RECURSIVE walkFrom(_, _, _, _)
RECURSIVE walkChildren(_, _, _, _)

\* walkFrom calling do(id) before it walks the children
walkFromPreOrder(d, id, acc, depth) ==
    IF depth > Cardinality(KnownIDs(d)) THEN [acc EXCEPT !.overflow = TRUE]
    ELSE walkChildren(d, sortedIds(Children(d, id)), do(id, acc), depth)

\* DAG.walkFrom at recursion depth `depth`.  walkFrom never reads the
\* visited set, so a call chain longer than the number of known identifiers
\* names one identifier twice and repeats forever: the goroutine stack
\* overflows, which `overflow` records.
walkFrom(d, id, acc, depth) ==
    IF depth > Cardinality(KnownIDs(d)) THEN [acc EXCEPT !.overflow = TRUE]
    ELSE LET a == walkChildren(d, sortedIds(Children(d, id)), acc, depth)
         IN IF a.overflow THEN a ELSE do(id, a)

\* the loop of walkFrom over the sorted children
walkChildren(d, kids, acc, depth) ==
    IF kids = <<>> \/ acc.overflow THEN acc
    ELSE walkChildren(d, Tail(kids), walkFrom(d, Head(kids), acc, depth + 1), depth)

\* the loop of Order over d.IDs()
RECURSIVE orderLoop(_, _, _)
orderLoop(d, ids, acc) ==
    IF ids = <<>> \/ acc.overflow THEN acc
    ELSE IF Head(ids) \in acc.visited THEN orderLoop(d, Tail(ids), acc)
    ELSE LET a == walkFrom(d, Head(ids), acc, 1)
         IN orderLoop(d, Tail(ids), [a EXCEPT !.visited = @ \cup {Head(ids)}])

\* DAG.Order: the sequence returned, or the fatal stack overflow
Order(d) ==
    LET a == orderLoop(d, IDs(d), [order |-> <<>>, visited |-> {}, overflow |-> FALSE])
    IN IF a.overflow THEN [ids |-> <<>>, err |-> StackOverflow]
       ELSE [ids |-> a.order, err |-> NoErr]

\* ------------------------------------------------------------------ state machine
S == [dag |-> dag, values |-> values, cycles |-> cycles, validated |-> validated]

Store(s) ==
    /\ dag' = s.dag
    /\ values' = s.values
    /\ cycles' = s.cycles
    /\ validated' = s.validated

\* what the last call returned; the fields a call does not return keep the
\* values of NoRet
NoRet == [op |-> "New", err |-> NoErr, reason |-> <<>>, ids |-> <<>>,
          flag |-> FALSE, id |-> NoID]

\* the number of edges of the adjacency map
RECURSIVE SumLen(_, _)
SumLen(d, K) ==
    IF K = {} THEN 0
    ELSE LET k == CHOOSE x \in K : TRUE IN Len(d[k]) + SumLen(d, K \ {k})

NumEdges(d) == SumLen(d, DOMAIN d)

\* no call runs after a fatal stack overflow, nor while another call runs
Running == ret.err # StackOverflow /\ pc = "idle"

\* Payloads are opaque to the code.  A first insertion carries v1 and an
\* attempt to insert an identifier again carries the other payload, so that
\* an overwrite of the stored value shows.
Payload(id) == IF id \in DOMAIN values THEN "v2" ELSE "v1"

Init ==
    /\ dag = New.dag
    /\ values = New.values
    /\ cycles = New.cycles
    /\ validated = New.validated
    /\ ret = NoRet
    /\ pc = "idle"
    /\ frames = <<>>
    /\ todo = <<>>
    /\ plan = <<>>

\* AddNode(id, value, before, after); a call that would take the adjacency
\* map past MaxEdges edges is left out
DoAddNode ==
    \E id \in IDSet, hp \in HintPairs :
        /\ Running
        /\ LET r == AddNode(S, id, Payload(id), hp[1], hp[2])
           IN /\ NumEdges(r.s.dag) <= MaxEdges
              /\ Store(r.s)
              /\ ret' = [NoRet EXCEPT !.op = "AddNode", !.err = r.err]
        /\ UNCHANGED aux

DoValidate ==
    /\ Running
    /\ LET r == Validate(S)
       IN /\ Store(r.s)
          /\ ret' = [NoRet EXCEPT !.op = "Validate", !.err = r.err,
                                  !.reason = r.reason]
    /\ UNCHANGED aux

DoHasCycle ==
    \E id \in IDSet :
        /\ Running
        /\ LET r == HasCycle(S, id)
           IN /\ Store(r.s)
              /\ ret' = [NoRet EXCEPT !.op = "HasCycle", !.flag = r.flag,
                                      !.id = id]
        /\ UNCHANGED aux

DoOrder ==
    /\ Running
    /\ LET r == Order(dag)
       IN ret' = [NoRet EXCEPT !.op = "Order", !.ids = r.ids, !.err = r.err]
    /\ UNCHANGED <<dag, values, cycles, validated>>
    /\ UNCHANGED aux

DoIDs ==
    /\ Running
    /\ ret' = [NoRet EXCEPT !.op = "IDs", !.ids = IDs(dag)]
    /\ UNCHANGED <<dag, values, cycles, validated>>
    /\ UNCHANGED aux

Next ==
    \/ DoAddNode
    \/ DoValidate
    \/ DoHasCycle
    \/ DoOrder
    \/ DoIDs

Spec == Init /\ [][Next]_vars

\* ------------------------------------------------------------------ Validate, step by step
\* One frame per active call of hasCycle: its arguments, the loop it is in
\* ("scan": the loop over the branch, "visit": the loop over the sorted
\* children) and the children the second loop has still to visit.
Frame(branch, children, reason) ==
    [branch |-> branch, children |-> children, reason |-> reason,
     phase |-> "scan", kids |-> <<>>]

Top == frames[Len(frames)]

\* Validate is called: a fresh cycle set, validated = true, the loop over IDs()
BeginValidate ==
    /\ Running
    /\ pc' = "Validate"
    /\ cycles' = {}
    /\ validated' = TRUE
    /\ todo' = IDs(dag)
    /\ frames' = <<>>
    /\ UNCHANGED <<dag, values, ret, plan>>

\* the loop of Validate calls validateNode, which calls hasCycle
EnterNode ==
    /\ pc = "Validate" /\ frames = <<>> /\ todo # <<>>
    /\ frames' = <<Frame(<<Head(todo)>>, Children(dag, Head(todo)),
                         <<Head(todo), Arrow>>)>>
    /\ todo' = Tail(todo)
    /\ UNCHANGED <<dag, values, cycles, validated, ret, pc, plan>>

\* the loop of Validate is over: return "", nil
FinishValidate ==
    /\ pc = "Validate" /\ frames = <<>> /\ todo = <<>>
    /\ pc' = "idle"
    /\ ret' = [NoRet EXCEPT !.op = "Validate"]
    /\ UNCHANGED <<dag, values, cycles, validated, frames, todo, plan>>

\* the first loop of hasCycle finds an identifier of the branch among the
\* children: it is marked, every caller returns at once with the reason,
\* validateNode marks its identifier and Validate returns the error
ScanHit ==
    /\ pc = "Validate" /\ frames # <<>> /\ Top.phase = "scan"
    /\ branchHit(Top.branch, Top.children) # 0
    /\ LET id == Top.branch[branchHit(Top.branch, Top.children)]
       IN /\ cycles' = cycles \cup {id, frames[1].branch[1]}
          /\ ret' = [NoRet EXCEPT !.op = "Validate", !.err = ErrCycleDetected,
                                  !.reason = Top.reason \o <<id>>]
    /\ frames' = <<>>
    /\ todo' = <<>>
    /\ pc' = "idle"
    /\ UNCHANGED <<dag, values, validated, plan>>

\* the first loop finds nothing: go on to the loop over the sorted children
ScanMiss ==
    /\ pc = "Validate" /\ frames # <<>> /\ Top.phase = "scan"
    /\ branchHit(Top.branch, Top.children) = 0
    /\ frames' = [frames EXCEPT ![Len(frames)].phase = "visit",
                                ![Len(frames)].kids = sortedIds(Top.children)]
    /\ UNCHANGED <<dag, values, cycles, validated, ret, pc, todo, plan>>

\* the second loop calls hasCycle on the next child
VisitChild ==
    /\ pc = "Validate" /\ frames # <<>> /\ Top.phase = "visit"
    /\ Top.kids # <<>>
    /\ LET tid == Head(Top.kids)
       IN frames' = Append([frames EXCEPT ![Len(frames)].kids = Tail(@)],
                           Frame(Append(Top.branch, tid), Children(dag, tid),
                                 Top.reason \o <<tid, Arrow>>))
    /\ UNCHANGED <<dag, values, cycles, validated, ret, pc, todo, plan>>

\* the second loop is over: return false, ""
ReturnFalse ==
    /\ pc = "Validate" /\ frames # <<>> /\ Top.phase = "visit"
    /\ Top.kids = <<>>
    /\ frames' = SubSeq(frames, 1, Len(frames) - 1)
    /\ UNCHANGED <<dag, values, cycles, validated, ret, pc, todo, plan>>

ValidateStep ==
    \/ EnterNode
    \/ FinishValidate
    \/ ScanHit
    \/ ScanMiss
    \/ VisitChild
    \/ ReturnFalse

NextSteps ==
    \/ DoAddNode
    \/ BeginValidate
    \/ ValidateStep

\* a call that has started runs on: the code is sequential and never waits
SpecSteps == Init /\ [][NextSteps]_vars /\ WF_vars(ValidateStep)

\* ------------------------------------------------------------------ builds
\* A plan is a set of insertions with distinct identifiers, each with the
\* set of its before entries and the set of its after entries.  A build
\* makes the insertions of its plan in any order, each with the entries of
\* its lists in any order.
HintSetPairs ==
    {p \in (SUBSET IDSet) \X (SUBSET IDSet) :
        Cardinality(p[1]) + Cardinality(p[2]) <= MaxHints}

RECURSIVE PlanSize(_, _)
PlanSize(p, K) ==
    IF K = {} THEN 0
    ELSE LET k == CHOOSE x \in K : TRUE
         IN Cardinality(p[k][1]) + Cardinality(p[k][2]) + PlanSize(p, K \ {k})

Plans ==
    {p \in UNION {[K -> HintSetPairs] : K \in SUBSET IDSet} :
        PlanSize(p, DOMAIN p) <= MaxEdges}

\* the lists that hold every element of the set once
Perms(set) == {s \in [1..Cardinality(set) -> set] : Range(s) = set}

InitBuild ==
    /\ dag = New.dag
    /\ values = New.values
    /\ cycles = New.cycles
    /\ validated = New.validated
    /\ ret = NoRet
    /\ pc = "idle"
    /\ frames = <<>>
    /\ todo = <<>>
    /\ plan \in Plans

\* one insertion of the plan that has not been made yet
ApplyCall ==
    \E id \in DOMAIN plan :
        \E before \in Perms(plan[id][1]), after \in Perms(plan[id][2]) :
            /\ Running
            /\ id \notin DOMAIN values
            /\ LET r == AddNode(S, id, Payload(id), before, after)
               IN /\ Store(r.s)
                  /\ ret' = [NoRet EXCEPT !.op = "AddNode", !.err = r.err]
            /\ UNCHANGED aux

NextBuild ==
    \/ ApplyCall
    \/ DoOrder
    \/ DoIDs

SpecBuild == InitBuild /\ [][NextBuild]_vars

\* the structure built from the plan in one fixed way: the insertions in
\* ascending order of their identifiers, each list in ascending order
RECURSIVE CanonFrom(_, _, _)
CanonFrom(p, i, s) ==
    IF i > Len(Alphabet) THEN s
    ELSE LET id == Alphabet[i]
         IN CanonFrom(p, i + 1,
                IF id \in DOMAIN p
                THEN AddNode(s, id, "v1", sortSort(mapKeys(p[id][1])),
                             sortSort(mapKeys(p[id][2]))).s
                ELSE s)

Canon(p) == CanonFrom(p, 1, New)

\* ------------------------------------------------------------------ graph notions
\* The notions the properties below are stated with, defined on the
\* adjacency map alone and not through the code.
Edge(d, u, v) == u \in DOMAIN d /\ contains(d[u], v)

Successors(d, X) == UNION {Range(Children(d, x)) : x \in X}

RECURSIVE Closure(_, _)
Closure(d, X) ==
    LET Y == X \cup Successors(d, X) IN IF Y = X THEN X ELSE Closure(d, Y)

\* the identifiers a path of one or more edges leads to from x
ReachPlus(d, x) == Closure(d, Successors(d, {x}))

OnCycle(d, x) == x \in ReachPlus(d, x)

HasDirectedCycle(d) == \E x \in KnownIDs(d) : OnCycle(d, x)

ReachesCycle(d, x) == OnCycle(d, x) \/ \E y \in ReachPlus(d, x) : OnCycle(d, y)

\* the adjacency map has exactly the edges of E (pairs <<from, to>>)
EdgesAre(d, E) == {<<u, v>> \in IDSet \X IDSet : Edge(d, u, v)} = E

\* the identifiers of a path description: its words at the odd positions
PathIDs(reason) == [i \in 1..((Len(reason) + 1) \div 2) |-> reason[2 * i - 1]]

\* a path description is identifiers separated by "->"
WellFormedPath(reason) ==
    /\ Len(reason) % 2 = 1
    /\ \A i \in 1..Len(reason) :
          IF i % 2 = 0 THEN reason[i] = Arrow ELSE reason[i] \in IDSet

Position(s, x) == Min({i \in 1..Len(s) : s[i] = x})

\* ------------------------------------------------------------------ properties

\* C1: Validate() returns ErrCycleDetected exactly when the adjacency map has
\* a directed cycle (a self-loop included); on an acyclic graph it returns
\* the empty description and no error.
ValidateDetectsExactlyCycles ==
    ret.op = "Validate" =>
        /\ ret.err \in {NoErr, ErrCycleDetected}
        /\ ret.err = ErrCycleDetected <=> HasDirectedCycle(dag)
        /\ ~HasDirectedCycle(dag) => ret.err = NoErr /\ ret.reason = <<>>

\* Validate has reported the cycle of a graph whose first identifier is
\* not on it: A -> B, B -> B
ValidateFoundCycle ==
    /\ ret.op = "Validate"
    /\ ret.err = ErrCycleDetected
    /\ EdgesAre(dag, {<<"A", "B">>, <<"B", "B">>})

\* C9: the path description of a failed Validate() names a real cycle: it
\* is identifiers separated by "->", it starts at the smallest identifier
\* from which a cycle is reachable, each consecutive pair is an edge, and
\* its last identifier occurs earlier in it; for A -> B -> C -> A it is
\* A, B, C, A.
ReasonNamesRealCycle ==
    (ret.op = "Validate" /\ ret.err = ErrCycleDetected) =>
        LET p == PathIDs(ret.reason)
        IN /\ WellFormedPath(ret.reason)
           /\ Len(p) >= 2
           /\ ReachesCycle(dag, p[1])
           /\ \A x \in KnownIDs(dag) : ReachesCycle(dag, x) => ~Less(x, p[1])
           /\ \A i \in 1..(Len(p) - 1) : Edge(dag, p[i], p[i + 1])
           /\ \E i \in 1..(Len(p) - 1) : p[i] = p[Len(p)]
           /\ EdgesAre(dag, {<<"A", "B">>, <<"B", "C">>, <<"C", "A">>})
                 => ret.reason = <<"A", Arrow, "B", Arrow, "C", Arrow, "A">>

\* Validate has failed on the graph A -> B -> C -> A
ValidateFailedOnTriangle ==
    /\ ret.op = "Validate"
    /\ ret.err = ErrCycleDetected
    /\ EdgesAre(dag, {<<"A", "B">>, <<"B", "C">>, <<"C", "A">>})

\* C5: on an acyclic graph Order() returns every known identifier exactly
\* once, and for every edge u -> v it has v before u; children are walked
\* in ascending order, so for the nodes A, B, C with the edges A -> B and
\* A -> C it is B, C, A.
OrderIsTopological ==
    (ret.op = "Order" /\ ~HasDirectedCycle(dag)) =>
        /\ ret.err = NoErr
        /\ Range(ret.ids) = KnownIDs(dag)
        /\ Len(ret.ids) = Cardinality(KnownIDs(dag))
        /\ \A u \in IDSet, v \in IDSet :
              Edge(dag, u, v) => Position(ret.ids, v) < Position(ret.ids, u)
        /\ (EdgesAre(dag, {<<"A", "B">>, <<"A", "C">>})
               /\ KnownIDs(dag) = {"A", "B", "C"}) => ret.ids = <<"B", "C", "A">>

\* Order() has returned on the graph with the edges A -> C and A -> B,
\* declared in that order
OrderedTwoChildren ==
    /\ ret.op = "Order"
    /\ ret.err = NoErr
    /\ "A" \in DOMAIN dag /\ dag["A"] = <<"C", "B">>
    /\ EdgesAre(dag, {<<"A", "B">>, <<"A", "C">>})

IsPrefix(s, t) == Len(s) <= Len(t) /\ \A i \in 1..Len(s) : s[i] = t[i]

\* C6: AddNode on an identifier that has a value returns ErrDuplicateNode
\* and changes nothing (adjacency map, value map, cycle set, validated
\* flag), whatever its before and after lists; an identifier that is only
\* an edge endpoint can be inserted, and keeps the edges it has.
DuplicateInsertChangesNothing ==
    \A id \in IDSet, hp \in HintPairs :
        LET r == AddNode(S, id, Payload(id), hp[1], hp[2])
        IN IF id \in DOMAIN values
           THEN r.err = ErrDuplicateNode /\ r.s = S
           ELSE /\ r.err = NoErr
                /\ r.s.values[id] = Payload(id)
                /\ id \in DOMAIN dag => IsPrefix(dag[id], r.s.dag[id])

\* an AddNode call has just failed as a duplicate on a validated structure
\* with edges and a marked cycle
DuplicateRejected ==
    /\ ret.op = "AddNode"
    /\ ret.err = ErrDuplicateNode
    /\ validated
    /\ cycles # {}
    /\ NumEdges(dag) >= 2

\* C7: HasCycle never answers from a stale cycle set: whenever the validated
\* flag is true the cycle set is the one a fresh Validate() computes from
\* the current adjacency map, and the answer of HasCycle(id) is the lookup
\* of id in that set.
NoStaleCycleAnswer ==
    /\ validated => cycles = Validate(S).s.cycles
    /\ ret.op = "HasCycle" =>
          /\ validated
          /\ ret.flag = (ret.id \in Validate(S).s.cycles)

\* HasCycle has answered true on a structure with every identifier inserted
HasCycleAnsweredTrue ==
    /\ ret.op = "HasCycle"
    /\ ret.flag
    /\ DOMAIN values = IDSet

\* the identifiers of the cycle a path description closes: from the first
\* occurrence of its last identifier on
CycleOf(reason) ==
    LET p == PathIDs(reason)
    IN {p[i] : i \in Position(p, p[Len(p)])..Len(p)}

\* C2: after Validate() has detected a cycle, HasCycle(x) is true for every
\* identifier x on that cycle; for A -> B -> C -> A, HasCycle(A), HasCycle(B)
\* and HasCycle(C) are all true.
DetectedCycleIsMarked ==
    (ret.op = "Validate" /\ ret.err = ErrCycleDetected) =>
        \A x \in CycleOf(ret.reason) : HasCycle(S, x).flag

\* C3: the cycle set, and so HasCycle, marks only identifiers that are on a
\* directed cycle of the adjacency map.
OnlyCycleMembersMarked ==
    /\ \A x \in cycles : OnCycle(dag, x)
    /\ (ret.op = "HasCycle" /\ ret.flag) => OnCycle(dag, ret.id)

\* C4: every identifier that was inserted or named in a before or after
\* list has an adjacency-map entry, and so is in IDs().
EveryNamedIdentifierHasEntry ==
    /\ KnownIDs(dag) \subseteq DOMAIN dag
    /\ ret.op = "IDs" => KnownIDs(dag) \subseteq Range(ret.ids)

NoRepeat(s) == \A i \in 1..Len(s), j \in 1..Len(s) : s[i] = s[j] => i = j

\* in every active call of hasCycle the branch names no identifier twice, and
\* the calls are nested no deeper than the graph has identifiers
BranchesAreSimple ==
    /\ \A i \in 1..Len(frames) :
          /\ NoRepeat(frames[i].branch)
          /\ Len(frames[i].branch) = i
    /\ Len(frames) <= Cardinality(KnownIDs(dag))

\* C10: Validate() terminates on every graph, cyclic or not: no branch of a
\* call of hasCycle repeats an identifier, so the recursion is never deeper
\* than the number of distinct identifiers, and a call that has started
\* returns.
ValidateTerminates ==
    /\ []BranchesAreSimple
    /\ (pc = "Validate") ~> (pc = "idle")

\* Validate is three calls of hasCycle deep in a graph that has a cycle
ValidateDeepInCyclicGraph ==
    /\ pc = "Validate"
    /\ Len(frames) = 3
    /\ HasDirectedCycle(dag)

\* the steps of a Validate call end with what Validate computes at once
StepsAgreeWithValidate ==
    (pc = "idle" /\ ret.op = "Validate") =>
        /\ ret.err = Validate(S).err
        /\ ret.reason = Validate(S).reason
        /\ cycles = Validate(S).s.cycles
        /\ validated

\* C8: IDs() and Order() do not depend on the order of declaration: two
\* calls with no insertion between them return the same sequence, and every
\* acyclic structure built from the same insertions, made in any order and
\* with the entries of each before and after list in any order, returns the
\* same IDs() and the same Order().
BuildOrderDoesNotMatter ==
    (DOMAIN values = DOMAIN plan /\ ~HasDirectedCycle(dag)) =>
        /\ IDs(dag) = IDs(Canon(plan).dag)
        /\ Order(dag) = Order(Canon(plan).dag)
        /\ ret.op = "IDs" => ret.ids = IDs(Canon(plan).dag)
        /\ ret.op = "Order" => ret.ids = Order(Canon(plan).dag).ids

\* Order() has returned on a complete acyclic build whose adjacency lists
\* differ from those of the build made in ascending order
OrderedAfterPermutedBuild ==
    /\ ret.op = "Order"
    /\ ret.err = NoErr
    /\ DOMAIN values = DOMAIN plan
    /\ Cardinality(DOMAIN plan) >= 2
    /\ \E k \in DOMAIN dag : Len(dag[k]) >= 2
    /\ dag # Canon(plan).dag

\* Order() overflows the stack exactly on the graphs that have a cycle
OrderOverflowsOnCycles ==
    ret.op = "Order" => (ret.err = StackOverflow <=> HasDirectedCycle(dag))

====
